---- MODULE Spec2Model ----
(***************************************************************************)
(* fs3: whole-file advisory locks, space pre-allocation and filesystem     *)
(* statistics for std::fs::File.                                           *)
(*                                                                         *)
(* src/src/lib.rs holds the FileExt trait, its implementation for File     *)
(* (one call into the platform module `sys` per method) and the path       *)
(* functions.  The platform module itself (unix.rs / windows.rs) is not    *)
(* part of the sources at hand; the sys_* definitions below model it from  *)
(* the specification and from the flock(2) semantics lib.rs names          *)
(* (lib.rs:45-48).  One file on one filesystem is modelled; handles are    *)
(* slots 1..MaxHandles, each referring to an open-file description.        *)
(***************************************************************************)
EXTENDS Integers, FiniteSets, Sequences, TLC

\* ---------------------------------------------------------------- bounds
MaxHandles == 3   \* handle slots of the process
MaxGran == 3      \* the filesystem's granularity is one of 2..MaxGran bytes
DiskBlocks == 2   \* allocation units the filesystem can give the file
MaxLen == 6       \* lengths passed to allocate and set_len are 0..MaxLen
MaxWrite == 2     \* a write is of 1..MaxWrite bytes
ApiHandles == 2   \* handles open at a time where the whole interface is explored

Handles == 1..MaxHandles
Descs == 1..MaxHandles
NoDesc == 0

\* ------------------------------------------------- results of a call
\* io::Result: "Ok", or the kind of the io::Error.  "Pending" marks a
\* blocking call that has not returned yet.
Ok == "Ok"
Pending == "Pending"
WouldBlock == "WouldBlock"
Unsupported == "Unsupported"
StorageFull == "StorageFull"
NotFound == "NotFound"

VARIABLES
  desc,         \* desc[h]: the open-file description handle h refers to, NoDesc when closed;
                \* a description is named by the lowest handle slot that refers to it
  lock,         \* lock[d]: "none" | "shared" | "exclusive", the flock state of description d
  waiting,      \* waiting[h]: the lock a blocking call on h is suspended for, or "none"
  last,         \* the most recent call step: [op, h, arg, res, val, was]
  lockSupport,  \* whether the filesystem supports file locks
  gran,         \* the filesystem's allocation granularity, in bytes
  flen,         \* the file's logical length, in bytes
  alloc,        \* the file's allocated size, in bytes
  pos,          \* pos[d]: the file position of description d, 0 when d is not in use
  bytes,        \* the file's content, Len(bytes) = flen; a byte is represented by
                \* the handle slot it was written through, 0 for a byte never written
  backend,      \* the calls into the platform module the most recent step made:
                \* a sequence of [fn, res, val]
  seen          \* seen.f: the value the path function f returned last, with the
                \* allocated size of the file at that time; empty before

lockVars == <<desc, lock, waiting, lockSupport>>
allocVars == <<gran, flen, alloc>>
ioVars == <<pos, bytes>>
vars ==
  <<desc, lock, waiting, last, lockSupport, gran, flen, alloc, pos, bytes, backend, seen>>

\* ------------------------------------------------------------ helpers
IsOpen(h) == desc[h] # NoDesc
\* A handle a thread can start a call on: open, and not inside a blocking call.
Idle(h) == IsOpen(h) /\ waiting[h] = "none"
HandlesOf(d) == {h \in Handles : desc[h] = d}
MinOf(S) == CHOOSE k \in S : \A j \in S : k <= j
\* The lock held by the description handle h refers to.
LockOf(h) == lock[desc[h]]
\* Description `from` is named `to` from now on.
RenamedDesc(f, from, to) == [k \in Handles |-> IF f[k] = from THEN to ELSE f[k]]
RenamedLock(l, from, to) ==
  IF from = to THEN l ELSE [l EXCEPT ![to] = l[from], ![from] = "none"]
RenamedPos(p, from, to) ==
  IF from = to THEN p ELSE [p EXCEPT ![to] = p[from], ![from] = 0]
\* The file position handle h reads and writes at.
PosOf(h) == pos[desc[h]]
\* The content s cut or zero-filled to n bytes.
Resized(s, n) == [i \in 1..n |-> IF i <= Len(s) THEN s[i] ELSE 0]
\* The FsStats of a call that returns none.
NoStats ==
  [free_space |-> 0, available_space |-> 0, total_space |-> 0, allocation_granularity |-> 0]

\* op(h, arg) returned res: Ok (with the u64 val, 0 for (), or the FsStats
\* stats, or the bytes data), Pending, or an error kind; was: the lock h's description held, and the file's length and
\* allocated size, when the call was made.
Call(op, h, arg, res, val) ==
  [op |-> op, h |-> h, arg |-> arg, res |-> res, val |-> val, stats |-> NoStats,
   data |-> <<>>,
   was |-> [lock |-> IF h \in Handles /\ IsOpen(h) THEN LockOf(h) ELSE "none",
            pos |-> IF h \in Handles /\ IsOpen(h) THEN PosOf(h) ELSE 0,
            flen |-> flen, alloc |-> alloc]]

\* The step makes the one call fn into the platform module, which returns
\* res (with the value val); or it makes no such call.
Made(fn, res, val) == backend' = <<[fn |-> fn, res |-> res, val |-> val, stats |-> NoStats]>>
NoBackend == backend' = <<>>

\* Mutant of Conflict: shared locks of other descriptions are overlooked.
Conflict_ignoring_shared(d, t) ==
  \E e \in Descs \ {d} : lock[e] = "exclusive"

\* flock(2): a request of type t by description d conflicts with a lock of
\* another description when either of the two is exclusive.
Conflict(d, t) ==
  \E e \in Descs \ {d} :
    /\ lock[e] # "none"
    /\ (t = "exclusive" \/ lock[e] = "exclusive")

\* ------------------------------------------ the platform module (sys)
\* What a request that cannot be granted at once leaves of the lock the
\* description already holds: flock(2) does not guarantee that converting a
\* lock is atomic, the old lock may be removed before the new one is set.
LeftOnConflict(d) == {lock[d], "none"}

\* flock(fd, t | LOCK_NB) returning r.
sys_try_lock(h, t, r) ==
  LET d == desc[h] IN
  IF ~lockSupport
    THEN r = Unsupported /\ UNCHANGED lock
    ELSE IF ~Conflict(d, t)
      THEN r = Ok /\ lock' = [lock EXCEPT ![d] = t]
      ELSE /\ r = WouldBlock
           /\ \E left \in LeftOnConflict(d) : lock' = [lock EXCEPT ![d] = left]

sys_try_lock_shared(h, r) ==
  sys_try_lock(h, "shared", r) /\ UNCHANGED waiting /\ Made("try_lock_shared", r, 0)
sys_try_lock_exclusive(h, r) ==
  sys_try_lock(h, "exclusive", r) /\ UNCHANGED waiting /\ Made("try_lock_exclusive", r, 0)

\* flock(fd, t): returns at once when the lock can be granted, otherwise the
\* calling thread is suspended (r = Pending) until sys_wake grants it.
sys_lock(h, t, r) ==
  LET d == desc[h] IN
  IF ~lockSupport
    THEN r = Unsupported /\ UNCHANGED <<lock, waiting>>
    ELSE IF ~Conflict(d, t)
      THEN r = Ok /\ lock' = [lock EXCEPT ![d] = t] /\ UNCHANGED waiting
      ELSE /\ r = Pending
           /\ waiting' = [waiting EXCEPT ![h] = t]
           /\ \E left \in LeftOnConflict(d) : lock' = [lock EXCEPT ![d] = left]

sys_lock_shared(h, r) == sys_lock(h, "shared", r) /\ Made("lock_shared", r, 0)
sys_lock_exclusive(h, r) == sys_lock(h, "exclusive", r) /\ Made("lock_exclusive", r, 0)

\* The kernel grants the lock a suspended flock call waits for; it may pick
\* any waiter whose request no longer conflicts.
sys_wake(h, r) ==
  /\ waiting[h] # "none"
  /\ ~Conflict(desc[h], waiting[h])
  /\ r = Ok
  /\ lock' = [lock EXCEPT ![desc[h]] = waiting[h]]
  /\ waiting' = [waiting EXCEPT ![h] = "none"]
  /\ Made(IF waiting[h] = "shared" THEN "lock_shared" ELSE "lock_exclusive", r, 0)

\* flock(fd, LOCK_UN)
sys_unlock(h, r) ==
  /\ IF ~lockSupport
       THEN r = Unsupported /\ UNCHANGED lock
       ELSE r = Ok /\ lock' = [lock EXCEPT ![desc[h]] = "none"]
  /\ Made("unlock", r, 0)

\* dup(fd): the new handle refers to the same open-file description.
FreeSlots == {k \in Handles : ~IsOpen(k)}
sys_duplicate(h, r) ==
  /\ FreeSlots # {}
  /\ LET n == MinOf(FreeSlots)
         d == desc[h]
         name == MinOf({d, n})
     IN  /\ desc' = RenamedDesc([desc EXCEPT ![n] = d], d, name)
         /\ lock' = RenamedLock(lock, d, name)
         /\ pos' = RenamedPos(pos, d, name)
  /\ r = Ok
  /\ Made("duplicate", r, 0)

sys_lock_error == WouldBlock

\* n rounded up to the allocation granularity.
RoundUp(n) == ((n + gran - 1) \div gran) * gran
Max(a, b) == IF a >= b THEN a ELSE b
\* The bytes the filesystem can reserve for the file.
Capacity == DiskBlocks * gran

\* Reserves storage for the first len bytes and extends the file to len
\* bytes when it is shorter (lib.rs:69-73); fails, changing nothing, when
\* the filesystem cannot reserve that much.
sys_allocate(h, len, r) ==
  /\ IF RoundUp(len) > Capacity
       THEN r = StorageFull /\ UNCHANGED <<flen, alloc>>
       ELSE /\ r = Ok
            /\ alloc' = Max(alloc, RoundUp(len))
            /\ flen' = Max(flen, len)
  /\ bytes' = Resized(bytes, flen')
  /\ Made("allocate", r, 0)

\* The physical space reserved for the file.
sys_allocated_size(h, r, v) == r = Ok /\ v = alloc /\ Made("allocated_size", r, v)

\* File::set_len: sets the logical length; storage beyond the last unit
\* that covers the new length is given back, extending reserves nothing.
set_len_effect(n) ==
  /\ flen' = n
  /\ alloc' = IF RoundUp(n) < alloc THEN RoundUp(n) ELSE alloc
  /\ bytes' = Resized(bytes, n)

\* The paths the path functions are called with: one in the filesystem of
\* the file, one that does not exist.
Paths == {"/mnt/file", "/nowhere"}
Mounted == {"/mnt/file"}
\* The filesystem keeps one allocation unit back for privileged users.
Reserved == gran
Total == Capacity + Reserved
\* statvfs(2) at this moment, as an FsStats.
FsStats ==
  [free_space |-> Total - alloc,
   available_space |-> Capacity - alloc,
   total_space |-> Total,
   allocation_granularity |-> gran]
sys_statvfs(path, r) ==
  /\ r = IF path \in Mounted THEN Ok ELSE NotFound
  /\ backend' = <<[fn |-> "statvfs", res |-> r, val |-> 0,
                   stats |-> IF r = Ok THEN FsStats ELSE NoStats]>>

\* ------------------------------------------------- impl FileExt for File
Results == {Ok, Pending, WouldBlock, Unsupported, StorageFull, NotFound}

\* Mutant of duplicate: the path is opened again instead of the handle
\* being duplicated, which makes a new open-file description.
duplicate_reopens(h) ==
  /\ Idle(h)
  /\ FreeSlots # {}
  /\ desc' = [desc EXCEPT ![MinOf(FreeSlots)] = MinOf(FreeSlots)]
  /\ last' = Call("duplicate", h, 0, Ok, 0)
  /\ UNCHANGED <<lock, waiting, lockSupport, allocVars>>
  /\ NoBackend
  /\ UNCHANGED <<ioVars, seen>>

duplicate(h) ==
  /\ Idle(h)
  /\ \E r \in Results : sys_duplicate(h, r) /\ last' = Call("duplicate", h, 0, r, 0)
  /\ UNCHANGED <<waiting, lockSupport, allocVars>>
  /\ UNCHANGED <<bytes, seen>>

\* Mutant of lock_shared: the lock the handle's description holds already
\* counts as a conflict, the call waits for it to go away.
lock_shared_against_own(h) ==
  /\ Idle(h)
  /\ IF LockOf(h) # "none" /\ lockSupport
       THEN /\ waiting' = [waiting EXCEPT ![h] = "shared"]
            /\ Made("lock_shared", Pending, 0)
            /\ last' = Call("lock_shared", h, 0, Pending, 0)
            /\ UNCHANGED lock
       ELSE \E r \in Results :
              sys_lock_shared(h, r) /\ last' = Call("lock_shared", h, 0, r, 0)
  /\ UNCHANGED <<desc, lockSupport, allocVars>>
  /\ UNCHANGED <<ioVars, seen>>

lock_shared(h) ==
  /\ Idle(h)
  /\ \E r \in Results : sys_lock_shared(h, r) /\ last' = Call("lock_shared", h, 0, r, 0)
  /\ UNCHANGED <<desc, lockSupport, allocVars>>
  /\ UNCHANGED <<ioVars, seen>>

\* Mutant of lock_exclusive: the call goes to sys::try_lock_exclusive.
lock_exclusive_nonblocking(h) ==
  /\ Idle(h)
  /\ \E r \in Results :
       sys_try_lock_exclusive(h, r) /\ last' = Call("lock_exclusive", h, 0, r, 0)
  /\ UNCHANGED <<desc, lockSupport, allocVars>>
  /\ UNCHANGED <<ioVars, seen>>

lock_exclusive(h) ==
  /\ Idle(h)
  /\ \E r \in Results : sys_lock_exclusive(h, r) /\ last' = Call("lock_exclusive", h, 0, r, 0)
  /\ UNCHANGED <<desc, lockSupport, allocVars>>
  /\ UNCHANGED <<ioVars, seen>>

\* The return of a lock_shared / lock_exclusive call that was suspended.
lock_return(h) ==
  /\ IsOpen(h)
  /\ \E r \in Results :
       /\ sys_wake(h, r)
       /\ last' = Call(IF waiting[h] = "shared" THEN "lock_shared return"
                                               ELSE "lock_exclusive return", h, 0, r, 0)
  /\ UNCHANGED <<desc, lockSupport, allocVars>>
  /\ UNCHANGED <<ioVars, seen>>

\* Mutant of try_lock_shared: the call goes to sys::lock_shared.
try_lock_shared_blocking(h) ==
  /\ Idle(h)
  /\ \E r \in Results : sys_lock_shared(h, r) /\ last' = Call("try_lock_shared", h, 0, r, 0)
  /\ UNCHANGED <<desc, lockSupport, allocVars>>
  /\ UNCHANGED <<ioVars, seen>>

try_lock_shared(h) ==
  /\ Idle(h)
  /\ \E r \in Results : sys_try_lock_shared(h, r) /\ last' = Call("try_lock_shared", h, 0, r, 0)
  /\ UNCHANGED <<desc, lockSupport, allocVars>>
  /\ UNCHANGED <<ioVars, seen>>

\* Mutant of try_lock_exclusive: the call goes to sys::try_lock_shared.
try_lock_exclusive_as_shared(h) ==
  /\ Idle(h)
  /\ \E r \in Results :
       sys_try_lock_shared(h, r) /\ last' = Call("try_lock_exclusive", h, 0, r, 0)
  /\ UNCHANGED <<desc, lockSupport, allocVars>>
  /\ UNCHANGED <<ioVars, seen>>

\* Mutant of try_lock_exclusive: on contention a shared lock is taken
\* instead, and the contention is reported.
try_lock_exclusive_or_shared(h) ==
  /\ Idle(h)
  /\ IF lockSupport /\ Conflict(desc[h], "exclusive")
       THEN \E r \in Results :
              /\ sys_try_lock_shared(h, r)
              /\ last' = Call("try_lock_exclusive", h, 0, WouldBlock, 0)
       ELSE \E r \in Results :
              /\ sys_try_lock_exclusive(h, r)
              /\ last' = Call("try_lock_exclusive", h, 0, r, 0)
  /\ UNCHANGED <<desc, lockSupport, allocVars>>
  /\ UNCHANGED <<ioVars, seen>>

try_lock_exclusive(h) ==
  /\ Idle(h)
  /\ \E r \in Results :
       sys_try_lock_exclusive(h, r) /\ last' = Call("try_lock_exclusive", h, 0, r, 0)
  /\ UNCHANGED <<desc, lockSupport, allocVars>>
  /\ UNCHANGED <<ioVars, seen>>

\* Mutant of unlock: a handle that holds no lock is refused.
unlock_if_locked(h) ==
  /\ Idle(h)
  /\ IF LockOf(h) = "none"
       THEN /\ last' = Call("unlock", h, 0, Unsupported, 0)
            /\ NoBackend
            /\ UNCHANGED lock
       ELSE \E r \in Results : sys_unlock(h, r) /\ last' = Call("unlock", h, 0, r, 0)
  /\ UNCHANGED <<desc, waiting, lockSupport, allocVars>>
  /\ UNCHANGED <<ioVars, seen>>

unlock(h) ==
  /\ Idle(h)
  /\ \E r \in Results : sys_unlock(h, r) /\ last' = Call("unlock", h, 0, r, 0)
  /\ UNCHANGED <<desc, waiting, lockSupport, allocVars>>
  /\ UNCHANGED <<ioVars, seen>>

\* Mutant of lock_contended_error: an error of another kind is built.
lock_contended_error_other == Unsupported

lock_contended_error == sys_lock_error

Sizes == 0..(DiskBlocks * MaxGran)

allocated_size(h) ==
  /\ Idle(h)
  /\ \E r \in Results, v \in Sizes :
       sys_allocated_size(h, r, v) /\ last' = Call("allocated_size", h, 0, r, v)
  /\ UNCHANGED <<lockVars, allocVars>>
  /\ UNCHANGED <<ioVars, seen>>

\* Mutant of allocate: the file is only set to len bytes (File::set_len),
\* nothing is reserved.
allocate_as_set_len(h, len) ==
  /\ Idle(h)
  /\ set_len_effect(len)
  /\ last' = Call("allocate", h, len, Ok, 0)
  /\ UNCHANGED <<lockVars, gran>>
  /\ NoBackend
  /\ UNCHANGED <<pos, seen>>

\* Mutant of allocate: len is rounded up to the granularity before the call.
allocate_rounded(h, len) ==
  /\ Idle(h)
  /\ \E r \in Results :
       sys_allocate(h, RoundUp(len), r) /\ last' = Call("allocate", h, len, r, 0)
  /\ UNCHANGED <<lockVars, gran>>
  /\ UNCHANGED <<pos, seen>>

\* Mutant of allocate: one byte too many is asked for.
allocate_one_more(h, len) ==
  /\ Idle(h)
  /\ \E r \in Results :
       sys_allocate(h, len + 1, r) /\ last' = Call("allocate", h, len, r, 0)
  /\ UNCHANGED <<lockVars, gran>>
  /\ UNCHANGED <<pos, seen>>

\* Mutant of allocate: what the filesystem cannot hold is cut off the request.
allocate_what_fits(h, len) ==
  /\ Idle(h)
  /\ \E r \in Results :
       /\ sys_allocate(h, IF len > Capacity THEN Capacity ELSE len, r)
       /\ last' = Call("allocate", h, len, r, 0)
  /\ UNCHANGED <<lockVars, gran>>
  /\ UNCHANGED <<pos, seen>>

\* Mutant of allocate: the call is refused while another description holds
\* an exclusive lock on the file.
allocate_unless_locked(h, len) ==
  /\ Idle(h)
  /\ IF \E d \in Descs \ {desc[h]} : lock[d] = "exclusive"
       THEN /\ last' = Call("allocate", h, len, WouldBlock, 0)
            /\ NoBackend
            /\ UNCHANGED <<flen, alloc, bytes>>
       ELSE \E r \in Results :
              sys_allocate(h, len, r) /\ last' = Call("allocate", h, len, r, 0)
  /\ UNCHANGED <<lockVars, gran>>
  /\ UNCHANGED <<pos, seen>>

allocate(h, len) ==
  /\ Idle(h)
  /\ \E r \in Results : sys_allocate(h, len, r) /\ last' = Call("allocate", h, len, r, 0)
  /\ UNCHANGED <<lockVars, gran>>
  /\ UNCHANGED <<pos, seen>>

\* ------------------------------------------------ the path functions
\* What the one call into the platform module returned.
Returned == backend'[1]
\* Mutant of statvfs: an error of the query is replaced by empty statistics.
statvfs_or_default(path) ==
  /\ \E r \in Results :
       /\ sys_statvfs(path, r)
       /\ last' = [Call("statvfs", 0, path, Ok, 0) EXCEPT !.stats = Returned.stats]
  /\ UNCHANGED <<lockVars, allocVars, ioVars, seen>>

statvfs(path) ==
  /\ \E r \in Results :
       /\ sys_statvfs(path, r)
       /\ last' = [Call("statvfs", 0, path, r, 0) EXCEPT !.stats = Returned.stats]
  /\ UNCHANGED <<lockVars, allocVars, ioVars, seen>>

\* statvfs(path).map(|stat| stat.field): the field of an Ok, the error of an Err.
MapField(q, field) == IF q.res = Ok THEN q.stats[field] ELSE 0
\* The function f has returned the value v.
Seen(f, res, v) ==
  seen' = IF res = Ok THEN [seen EXCEPT ![f] = {[v |-> v, at |-> alloc]}] ELSE seen

\* Mutant of free_space: the closure reads stat.available_space.
free_space_as_available(path) ==
  /\ \E r \in Results :
       /\ sys_statvfs(path, r)
       /\ last' = Call("free_space", 0, path, Returned.res, MapField(Returned, "available_space"))
  /\ Seen("free_space", last'.res, last'.val)
  /\ UNCHANGED <<lockVars, allocVars, ioVars>>

free_space(path) ==
  /\ \E r \in Results :
       /\ sys_statvfs(path, r)
       /\ last' = Call("free_space", 0, path, Returned.res, MapField(Returned, "free_space"))
  /\ Seen("free_space", last'.res, last'.val)
  /\ UNCHANGED <<lockVars, allocVars, ioVars>>

\* Mutant of available_space: the closure reads stat.total_space.
available_space_as_total(path) ==
  /\ \E r \in Results :
       /\ sys_statvfs(path, r)
       /\ last' = Call("available_space", 0, path, Returned.res, MapField(Returned, "total_space"))
  /\ Seen("available_space", last'.res, last'.val)
  /\ UNCHANGED <<lockVars, allocVars, ioVars>>

available_space(path) ==
  /\ \E r \in Results :
       /\ sys_statvfs(path, r)
       /\ last' = Call("available_space", 0, path, Returned.res,
                       MapField(Returned, "available_space"))
  /\ Seen("available_space", last'.res, last'.val)
  /\ UNCHANGED <<lockVars, allocVars, ioVars>>

total_space(path) ==
  /\ \E r \in Results :
       /\ sys_statvfs(path, r)
       /\ last' = Call("total_space", 0, path, Returned.res, MapField(Returned, "total_space"))
  /\ Seen("total_space", last'.res, last'.val)
  /\ UNCHANGED <<lockVars, allocVars, ioVars>>

allocation_granularity(path) ==
  /\ \E r \in Results :
       /\ sys_statvfs(path, r)
       /\ last' = Call("allocation_granularity", 0, path, Returned.res,
                       MapField(Returned, "allocation_granularity"))
  /\ UNCHANGED <<lockVars, allocVars, ioVars, seen>>

\* ------------------------------------- std::fs::File open and drop
\* OpenOptions::open(&path): a new handle on a new open-file description.
open ==
  /\ FreeSlots # {}
  /\ LET n == MinOf(FreeSlots)
     IN  /\ desc' = [desc EXCEPT ![n] = n]
         /\ last' = Call("open", n, 0, Ok, 0)
  /\ UNCHANGED <<lock, waiting, lockSupport, allocVars>>
  /\ NoBackend
  /\ UNCHANGED <<ioVars, seen>>

\* Mutant of close: the description's lock outlives its last handle.
close_keeps_lock(h) ==
  /\ Idle(h)
  /\ LET d == desc[h]
         rest == HandlesOf(d) \ {h}
     IN  IF rest = {}
           THEN /\ desc' = [desc EXCEPT ![h] = NoDesc]
                /\ pos' = [pos EXCEPT ![d] = 0]
                /\ UNCHANGED lock
           ELSE /\ desc' = RenamedDesc([desc EXCEPT ![h] = NoDesc], d, MinOf(rest))
                /\ lock' = RenamedLock(lock, d, MinOf(rest))
                /\ pos' = RenamedPos(pos, d, MinOf(rest))
  /\ last' = Call("close", h, 0, Ok, 0)
  /\ UNCHANGED <<waiting, lockSupport, allocVars>>
  /\ NoBackend
  /\ UNCHANGED <<bytes, seen>>

\* drop(file): closes the handle; the description, and with it its lock,
\* goes away with its last handle.
close(h) ==
  /\ Idle(h)
  /\ LET d == desc[h]
         rest == HandlesOf(d) \ {h}
     IN  IF rest = {}
           THEN /\ desc' = [desc EXCEPT ![h] = NoDesc]
                /\ lock' = [lock EXCEPT ![d] = "none"]
                /\ pos' = [pos EXCEPT ![d] = 0]
           ELSE /\ desc' = RenamedDesc([desc EXCEPT ![h] = NoDesc], d, MinOf(rest))
                /\ lock' = RenamedLock(lock, d, MinOf(rest))
                /\ pos' = RenamedPos(pos, d, MinOf(rest))
  /\ last' = Call("close", h, 0, Ok, 0)
  /\ UNCHANGED <<waiting, lockSupport, allocVars>>
  /\ NoBackend
  /\ UNCHANGED <<bytes, seen>>

\* Mutant of set_len: the length is set, the storage is kept.
set_len_keeps_blocks(h, n) ==
  /\ Idle(h)
  /\ flen' = n
  /\ last' = Call("set_len", h, n, Ok, 0)
  /\ UNCHANGED <<lockVars, gran, alloc>>
  /\ NoBackend
  /\ bytes' = Resized(bytes, n)
  /\ UNCHANGED <<pos, seen>>

\* file.set_len(n)
set_len(h, n) ==
  /\ Idle(h)
  /\ set_len_effect(n)
  /\ last' = Call("set_len", h, n, Ok, 0)
  /\ UNCHANGED <<lockVars, gran>>
  /\ NoBackend
  /\ UNCHANGED <<pos, seen>>

\* file.write_all(buf) with k bytes in buf: they go to the file at the
\* position of the handle's description, which moves past them; fails,
\* changing nothing, when the filesystem cannot hold them.
write(h, k) ==
  /\ Idle(h)
  /\ LET p == PosOf(h)
         e == p + k
     IN  IF RoundUp(e) > Capacity
           THEN /\ last' = Call("write", h, k, StorageFull, 0)
                /\ UNCHANGED <<flen, alloc, pos, bytes>>
           ELSE /\ flen' = Max(flen, e)
                /\ alloc' = Max(alloc, RoundUp(e))
                /\ bytes' = [i \in 1..Max(flen, e) |->
                               IF p < i /\ i <= e THEN h ELSE Resized(bytes, Max(flen, e))[i]]
                /\ pos' = [pos EXCEPT ![desc[h]] = e]
                /\ last' = Call("write", h, k, Ok, k)
  /\ NoBackend
  /\ UNCHANGED <<lockVars, gran, seen>>

\* file.read_to_end(&mut buf): the bytes from the position of the handle's
\* description to the end of the file; the position moves to the end.
read_to_end(h) ==
  /\ Idle(h)
  /\ LET data == SubSeq(bytes, PosOf(h) + 1, flen)
     IN  last' = [Call("read_to_end", h, 0, Ok, Len(data)) EXCEPT !.data = data]
  /\ pos' = [pos EXCEPT ![desc[h]] = Max(PosOf(h), flen)]
  /\ NoBackend
  /\ UNCHANGED <<lockVars, allocVars, bytes, seen>>

\* file.seek(SeekFrom::Start(n))
seek(h, n) ==
  /\ Idle(h)
  /\ pos' = [pos EXCEPT ![desc[h]] = n]
  /\ last' = Call("seek", h, n, Ok, n)
  /\ NoBackend
  /\ UNCHANGED <<lockVars, allocVars, bytes, seen>>

\* ------------------------------------------------------ specification
Init ==
  /\ desc = [h \in Handles |-> NoDesc]
  /\ lock = [d \in Descs |-> "none"]
  /\ waiting = [h \in Handles |-> "none"]
  /\ lockSupport \in BOOLEAN
  /\ gran \in 2..MaxGran
  /\ flen = 0
  /\ alloc = 0
  /\ pos = [d \in Descs |-> 0]
  /\ bytes = <<>>
  /\ backend = <<>>
  /\ seen = [total_space |-> {}, free_space |-> {}, available_space |-> {}]
  /\ last = Call("none", 0, 0, Ok, 0)

LockNext ==
  \/ open
  \/ \E h \in Handles : close(h)
  \/ \E h \in Handles : duplicate(h)
  \/ \E h \in Handles : lock_shared(h)
  \/ \E h \in Handles : lock_exclusive(h)
  \/ \E h \in Handles : lock_return(h)
  \/ \E h \in Handles : try_lock_shared(h)
  \/ \E h \in Handles : try_lock_exclusive(h)
  \/ \E h \in Handles : unlock(h)

AllocNext ==
  \/ open
  \/ \E h \in Handles : close(h)
  \/ \E h \in Handles : allocated_size(h)
  \/ \E h \in Handles, len \in 0..MaxLen : allocate(h, len)
  \/ \E h \in Handles, n \in 0..MaxLen : set_len(h, n)

\* The path functions, with the calls that change the space in use: one
\* handle allocates and truncates in whole allocation units.
StatNext ==
  \/ FreeSlots = Handles /\ open
  \/ \E h \in Handles, k \in 0..DiskBlocks : allocate(h, k * gran)
  \/ \E h \in Handles, k \in 0..DiskBlocks : set_len(h, k * gran)
  \/ \E path \in Paths : statvfs(path)
  \/ \E path \in Paths : free_space(path)
  \/ \E path \in Paths : available_space(path)
  \/ \E path \in Paths : total_space(path)
  \/ \E path \in Paths : allocation_granularity(path)

\* Reading and writing through a handle and its duplicates (the path is
\* opened when no handle is open); the file is kept to MaxWrite bytes.
DupNext ==
  \/ FreeSlots = Handles /\ open
  \/ \E h \in Handles : close(h)
  \/ \E h \in Handles : duplicate(h)
  \/ \E h \in Handles, k \in 1..MaxWrite : write(h, k) /\ flen' <= MaxWrite
  \/ \E h \in Handles : read_to_end(h)
  \/ \E h \in Handles : seek(h, 0)

\* Every method of FileExt and statvfs, with open and drop, on ApiHandles
\* handles at a time; allocate asks for whole allocation units, one more
\* than the filesystem has included.
ApiRoom == Cardinality(Handles \ FreeSlots) < ApiHandles
ApiNext ==
  \/ ApiRoom /\ open
  \/ \E h \in Handles : close(h)
  \/ \E h \in Handles : ApiRoom /\ duplicate(h)
  \/ \E h \in Handles : lock_shared(h)
  \/ \E h \in Handles : lock_exclusive(h)
  \/ \E h \in Handles : lock_return(h)
  \/ \E h \in Handles : try_lock_shared(h)
  \/ \E h \in Handles : try_lock_exclusive(h)
  \/ \E h \in Handles : unlock(h)
  \/ \E h \in Handles : allocated_size(h)
  \/ \E h \in Handles, k \in 0..(DiskBlocks + 1) : allocate(h, k * gran)
  \/ \E path \in Paths : statvfs(path)

\* The lock methods beside allocation, statistics and a file position that
\* is not 0, on independently opened handles.
MixNext ==
  \/ ApiRoom /\ open
  \/ \E h \in Handles : lock_shared(h)
  \/ \E h \in Handles : lock_exclusive(h)
  \/ \E h \in Handles : lock_return(h)
  \/ \E h \in Handles : try_lock_shared(h)
  \/ \E h \in Handles : try_lock_exclusive(h)
  \/ \E h \in Handles : unlock(h)
  \/ \E h \in Handles : allocated_size(h)
  \/ \E h \in Handles, k \in 0..(DiskBlocks + 1) : allocate(h, k * gran)
  \/ \E h \in Handles : seek(h, gran)
  \/ \E path \in Paths : statvfs(path)
  \/ \E path \in Paths : allocation_granularity(path)

Next == LockNext \/ AllocNext \/ StatNext \/ DupNext \/ ApiNext \/ MixNext

\* Every operation, in any interleaving.
Spec == Init /\ [][Next]_vars
\* The lock operations alone (they leave gran, flen and alloc as they are).
LockInit == Init /\ gran = 2
LockSpec == LockInit /\ [][LockNext]_vars
\* The kernel wakes a suspended flock call whose lock has become available.
FairLockSpec == LockSpec /\ \A h \in Handles : WF_vars(lock_return(h))
\* The allocator alone (it leaves lock and waiting as they are).
AllocInit == Init /\ lockSupport = TRUE
AllocSpec == AllocInit /\ [][AllocNext]_vars
\* The whole interface.
ApiSpec == LockInit /\ [][ApiNext]_vars
\* Locks beside allocation and statistics.
MixSpec == LockInit /\ [][MixNext]_vars
\* Reading and writing through the handles of a file.
DupInit == AllocInit /\ gran = 2
DupSpec == DupInit /\ [][DupNext]_vars
\* The path functions on a filesystem whose space in use changes.
StatInit == AllocInit
StatSpec == StatInit /\ [][StatNext]_vars

\* ------------------------------------------------- reading a step
\* Two handles opened independently of each other (not duplicates).
Independent(h1, h2) == IsOpen(h1) /\ IsOpen(h2) /\ desc[h1] # desc[h2]
\* Some handle opened independently of h holds a lock of one of `kinds`.
OthersHold(h, kinds) ==
  \E k \in Handles : Independent(k, h) /\ LockOf(k) \in kinds
\* The step is the start of a call of one of `ops` on handle h.
Calls(h, ops) == last'.h = h /\ last'.op \in ops /\ Idle(h)
TryOps == {"try_lock_shared", "try_lock_exclusive"}
BlockingOps == {"lock_shared", "lock_exclusive"}
ReturnOps == {"lock_shared return", "lock_exclusive return"}
SharedOps == {"lock_shared", "try_lock_shared"}
ExclusiveOps == {"lock_exclusive", "try_lock_exclusive"}
LockOps == TryOps \cup BlockingOps

\* The descriptions that hold the file's lock.
SharedHolders == {d \in Descs : lock[d] = "shared"}
ExclusiveHolders == {d \in Descs : lock[d] = "exclusive"}

\* C1: over every interleaving of the lock operations, duplicate and close,
\* the holders of the file's lock (per open-file description) are none, or
\* shared holders only, or exactly one exclusive holder and nobody else.
LockExclusionInv ==
  \/ SharedHolders = {} /\ ExclusiveHolders = {}
  \/ SharedHolders # {} /\ ExclusiveHolders = {}
  \/ SharedHolders = {} /\ Cardinality(ExclusiveHolders) = 1

\* Two descriptions hold shared locks and an exclusive request is suspended
\* behind them.
LockExclusionWitness ==
  /\ Cardinality(SharedHolders) = 2
  /\ \E h \in Handles : waiting[h] = "exclusive"

\* The condition ExclusiveExcludes puts on every step.
ExclusiveExcludesStep ==
  \A h1, h2 \in Handles :
    /\ (Independent(h1, h2) /\ LockOf(h1) = "exclusive" /\ Calls(h2, TryOps))
         => /\ last'.res = lock_contended_error
            /\ LockOf(h1)' = "exclusive"
    /\ (IsOpen(h1) /\ LockOf(h1) = "exclusive" /\ Calls(h1, {"unlock"}))
         => /\ last'.res = Ok
            /\ \A d \in Descs : lock'[d] = "none"
    /\ (Calls(h2, {"lock_exclusive"}) /\ lockSupport
        /\ ~OthersHold(h2, {"shared", "exclusive"}))
         => /\ last'.res = Ok
            /\ LockOf(h2)' = "exclusive"

\* C2: while an independently opened h1 holds an exclusive lock, every
\* try_lock_shared and try_lock_exclusive on h2 fails with the error kind of
\* lock_contended_error(); h1's unlock leaves the file unlocked, and a
\* lock_exclusive on h2 made when no other description holds a lock returns
\* Ok at once, holding the exclusive lock.
ExclusiveExcludes == [][ExclusiveExcludesStep]_vars

\* h2's try_lock_shared has just failed with the contention error while the
\* independently opened h1 holds its exclusive lock.
ExclusiveExcludesWitness ==
  /\ IsOpen(1) /\ IsOpen(2) /\ desc[1] # desc[2]
  /\ LockOf(1) = "exclusive"
  /\ last.op = "try_lock_shared" /\ last.h = 2 /\ last.res = WouldBlock

\* The condition SharedCoexist puts on every step.
SharedCoexistStep ==
  \A h \in Handles :
    /\ (Calls(h, SharedOps) /\ lockSupport /\ ~OthersHold(h, {"exclusive"}))
         => /\ last'.res = Ok
            /\ LockOf(h)' = "shared"
            /\ \A k \in Handles : Independent(k, h) => LockOf(k)' = LockOf(k)
    /\ (Calls(h, {"try_lock_exclusive"}) /\ OthersHold(h, {"shared"}))
         => /\ last'.res = lock_contended_error
            /\ \A k \in Handles : Independent(k, h) => LockOf(k)' = LockOf(k)
    /\ (Calls(h, ExclusiveOps) /\ lockSupport
        /\ ~OthersHold(h, {"shared", "exclusive"}))
         => /\ last'.res = Ok
            /\ LockOf(h)' = "exclusive"

\* C3: a shared request made while no other description holds an exclusive
\* lock is granted at once, next to the shared locks already held;
\* try_lock_exclusive fails with the contention error as long as any other
\* description holds a shared lock; an exclusive request made when no other
\* description holds a lock is granted at once.
SharedCoexist == [][SharedCoexistStep]_vars

\* Of three independently opened handles, h1 has released its shared lock,
\* h2 still holds its own, and h3's try_lock_exclusive has just failed.
SharedCoexistWitness ==
  /\ \A h \in {1, 2, 3} : IsOpen(h)
  /\ desc[1] # desc[2] /\ desc[1] # desc[3] /\ desc[2] # desc[3]
  /\ LockOf(1) = "none" /\ LockOf(2) = "shared"
  /\ last.op = "try_lock_exclusive" /\ last.h = 3 /\ last.res = WouldBlock

\* No lock is left to a description whose handles are all closed.
ClosedHoldsNothing == \A d \in Descs : lock[d] # "none" => HandlesOf(d) # {}
CloseReleasesStep ==
  /\ ClosedHoldsNothing'
  /\ \A h \in Handles :
       /\ (Calls(h, SharedOps) /\ lockSupport /\ ~OthersHold(h, {"exclusive"}))
            => last'.res = Ok
       /\ (Calls(h, ExclusiveOps) /\ lockSupport
           /\ ~OthersHold(h, {"shared", "exclusive"}))
            => last'.res = Ok

\* C4: closing the only handle of a description releases the lock it holds:
\* locks are held by descriptions with an open handle only, and a lock
\* request is granted at once whenever the locks of the other handles still
\* open allow it.
CloseReleases == [][CloseReleasesStep]_vars

\* h1 has just been dropped while it held an exclusive lock (never
\* unlocked); h2, opened independently, is still open and no lock is left.
CloseReleasesWitness ==
  /\ last.op = "close" /\ last.h = 1 /\ last.was.lock = "exclusive"
  /\ ~IsOpen(1) /\ IsOpen(2)
  /\ \A d \in Descs : lock[d] = "none"

\* The lock `before` is released or weakened to `after`.
GivenUp(before, after) ==
  \/ before = "exclusive" /\ after # "exclusive"
  \/ before = "shared" /\ after = "none"
OnlyUnlockReleasesStep ==
  \A h \in Handles :
    (IsOpen(h) /\ IsOpen(h)' /\ GivenUp(LockOf(h), LockOf(h)'))
      => (last'.op = "unlock" /\ IsOpen(last'.h) /\ desc[last'.h] = desc[h])

\* C5 (as stated): while a handle of a description stays open, the lock the
\* description holds is given up (so that a request of an independently
\* opened handle it shut out is no longer contended) only by an unlock
\* through one of its handles.
OnlyUnlockReleases == [][OnlyUnlockReleasesStep]_vars

\* The condition DescriptionOwnsLock puts on every step.
DescriptionOwnsLockStep ==
  \A h \in Handles :
    /\ (Calls(h, {"duplicate"}) /\ last'.res = Ok)
         => /\ \E n \in Handles :
                 /\ ~IsOpen(n) /\ IsOpen(n)'
                 /\ desc'[n] = desc'[h]
                 /\ LockOf(n)' = LockOf(h)
            /\ \A k \in Handles : IsOpen(k) => LockOf(k)' = LockOf(k)
    /\ (IsOpen(h) /\ IsOpen(h)' /\ LockOf(h) # "none" /\ LockOf(h)' # LockOf(h))
         => /\ last'.op \in {"unlock"} \cup LockOps \cup ReturnOps
            /\ IsOpen(last'.h) /\ desc[last'.h] = desc[h]

\* C5 (amended): the handle duplicate() returns refers to the description of
\* its source and so holds the lock that description holds, with no lock
\* call; while a handle of the description stays open its lock changes only
\* by an unlock or by a further lock request through one of its handles
\* (flock replaces the lock the description holds), never by duplicate, by
\* closing another of its handles or by a call on another description.
DescriptionOwnsLock == [][DescriptionOwnsLockStep]_vars

\* h1 held an exclusive lock and has just been closed; its duplicate h2
\* still holds that lock and the independently opened h3 is shut out.
DescriptionOwnsLockWitness ==
  /\ last.op = "close" /\ last.h = 1 /\ last.was.lock = "exclusive"
  /\ IsOpen(2) /\ LockOf(2) = "exclusive"
  /\ IsOpen(3) /\ desc[3] # desc[2]

\* The locks of other descriptions a request for t has to wait for.
Incompatible(t) == IF t = "shared" THEN {"exclusive"} ELSE {"shared", "exclusive"}
Requested(op) == IF op \in SharedOps \cup {"lock_shared return"} THEN "shared" ELSE "exclusive"

\* The condition BlockingLock puts on every step.
BlockingLockStep ==
  \A h \in Handles :
    /\ Calls(h, BlockingOps)
         => /\ last'.res # lock_contended_error
            /\ last'.res = Pending
                 <=> (lockSupport /\ OthersHold(h, Incompatible(Requested(last'.op))))
            /\ last'.res = Pending => waiting'[h] = Requested(last'.op)
            /\ last'.res = Ok => LockOf(h)' = Requested(last'.op)
    /\ (waiting[h] # "none" /\ waiting'[h] # waiting[h])
         => /\ last'.h = h /\ last'.op \in ReturnOps /\ last'.res = Ok
            /\ ~OthersHold(h, Incompatible(waiting[h]))
            /\ waiting'[h] = "none"
            /\ LockOf(h)' = waiting[h]
SuspendedForEver(h) ==
  <>[](waiting[h] # "none" /\ ~OthersHold(h, Incompatible(waiting[h])))

\* C6: lock_shared and lock_exclusive never return the contention error;
\* the call is suspended exactly when another description holds an
\* incompatible lock, it returns only once no such lock is held, and then
\* with Ok and the lock; and no call stays suspended for ever once its lock
\* stays available, whichever waiter the kernel serves first.
BlockingLock ==
  /\ [][BlockingLockStep]_vars
  /\ \A h \in Handles : ~SuspendedForEver(h)

\* A lock_exclusive call that was suspended has returned Ok with the lock.
BlockingLockWitness ==
  /\ last.op = "lock_exclusive return" /\ last.res = Ok
  /\ LockOf(last.h) = "exclusive"

\* A try call can be made on every idle handle.
TryCallable ==
  \A h \in Handles :
    Idle(h) => ENABLED try_lock_shared(h) /\ ENABLED try_lock_exclusive(h)
TryNeverBlocksStep ==
  \A h \in Handles :
    Calls(h, TryOps)
      => LET contended == OthersHold(h, Incompatible(Requested(last'.op))) IN
         /\ waiting' = waiting
         /\ last'.res \in {Ok, lock_contended_error, Unsupported}
         /\ last'.res = Ok <=> (lockSupport /\ ~contended)
         /\ last'.res = lock_contended_error <=> (lockSupport /\ contended)
         /\ last'.res = Unsupported <=> ~lockSupport
         /\ last'.res = Ok => LockOf(h)' = Requested(last'.op)

\* C7: a try_lock_shared or try_lock_exclusive call can be made whatever
\* locks are held and returns in that same step, suspending nobody: Ok with
\* the lock when no other description holds an incompatible lock, the
\* contention error when one does, and nothing but Unsupported (a
\* filesystem without locks) otherwise.
TryNeverBlocks == []TryCallable /\ [][TryNeverBlocksStep]_vars

\* A try_lock_exclusive call has returned the contention error while a
\* blocking call of another handle is suspended behind the same lock.
TryNeverBlocksWitness ==
  /\ last.op = "try_lock_exclusive" /\ last.res = WouldBlock
  /\ \E k \in Handles : k # last.h /\ waiting[k] = "exclusive"
  /\ OthersHold(last.h, {"shared"})

\* The condition AllocateRoundsUp puts on every step.
AllocateRoundsUpStep ==
  /\ (last'.op = "allocate" /\ last'.res = Ok /\ alloc < last'.arg)
       => /\ alloc' % gran = 0
          /\ alloc' >= last'.arg
          /\ alloc' - gran < last'.arg
  /\ (last'.op = "allocate" /\ last'.res = Ok /\ last'.arg = 2 * gran - 1 /\ alloc = 0)
       => alloc' = 2 * gran
  /\ last'.op = "allocated_size"
       => last'.res = Ok /\ last'.val = alloc /\ alloc' = alloc

\* C8: a successful allocate(n) on a file whose allocated size was below n
\* leaves the allocated size at the smallest multiple of the granularity
\* that covers n (2g for n = 2g - 1 on a fresh file), and allocated_size()
\* returns the file's allocated size.
AllocateRoundsUp == [][AllocateRoundsUpStep]_vars

\* allocate(2g - 1) has just succeeded on a file with nothing allocated: 2g
\* bytes are allocated to it now.
AllocateRoundsUpWitness ==
  /\ last.op = "allocate" /\ last.res = Ok /\ last.arg = 2 * gran - 1
  /\ last.was.alloc = 0 /\ last.was.flen = 0
  /\ alloc = 2 * gran

\* The condition AllocateLength puts on every step.
AllocateLengthStep ==
  (last'.op = "allocate" /\ last'.res = Ok)
    => /\ flen' >= last'.arg
       /\ flen < last'.arg => flen' = last'.arg
       /\ flen >= last'.arg => flen' = flen

\* C9: after a successful allocate(len) the file is at least len bytes long:
\* exactly len bytes when it was shorter, and as long as before otherwise.
AllocateLength == [][AllocateLengthStep]_vars

\* allocate(len) has just extended a shorter file to a length that is no
\* multiple of the granularity: the length is len, the allocated size is
\* larger.
AllocateLengthWitness ==
  /\ last.op = "allocate" /\ last.res = Ok
  /\ last.arg % gran # 0 /\ last.was.flen < last.arg
  /\ flen = last.arg /\ alloc > flen

\* The condition AllocateNoOp puts on every step.
AllocateNoOpStep ==
  (last'.op = "allocate" /\ last'.arg <= alloc)
    => last'.res = Ok /\ alloc' = alloc /\ flen' = flen

\* C10 (as stated): allocate(m) with m at most the allocated size succeeds
\* and changes nothing of the file.
AllocateNoOp == [][AllocateNoOpStep]_vars

\* The condition AllocateIdempotent puts on every step.
AllocateIdempotentStep ==
  /\ (last'.op = "allocate" /\ last'.arg <= alloc)
       => /\ last'.res = Ok
          /\ alloc' = alloc
          /\ flen' = Max(flen, last'.arg)
  /\ last'.op = "allocate" => alloc' >= alloc
  /\ (last'.op = "allocate" /\ last.op = "allocate" /\ last.res = Ok
      /\ last'.arg = last.arg)
       => last'.res = Ok /\ alloc' = alloc /\ flen' = flen

\* C10 (amended): allocate(m) with m at most the allocated size succeeds and
\* leaves the allocated size as it is; it changes nothing when the file is
\* at least m bytes long and extends a shorter file to m bytes.  No
\* successful allocate decreases the allocated size, and allocate(n) right
\* after a successful allocate(n) changes nothing.
AllocateIdempotent == [][AllocateIdempotentStep]_vars

\* allocate(m) has just succeeded with m above the file's length and within
\* its allocated size: the length is now m and the allocated size is as
\* before.
AllocateIdempotentWitness ==
  /\ last.op = "allocate" /\ last.res = Ok
  /\ last.was.flen < last.arg /\ last.arg <= last.was.alloc
  /\ flen = last.arg /\ alloc = last.was.alloc

\* The condition TruncateReclaims puts on every step.
TruncateReclaimsStep ==
  /\ (last'.op = "set_len" /\ last'.arg < alloc)
       => /\ last'.res = Ok
          /\ flen' = last'.arg
          /\ alloc' % gran = 0
          /\ alloc' >= last'.arg
          /\ alloc' - gran < last'.arg
  /\ (last'.op = "set_len" /\ last'.arg = gran + 1 /\ alloc = 2 * gran)
       => alloc' = 2 * gran /\ flen' = gran + 1

\* C11: set_len(n) with n below the allocated size leaves the file n bytes
\* long and its allocated size at the smallest multiple of the granularity
\* that covers n; after allocate(2g - 1), set_len(g + 1) leaves 2g bytes
\* allocated and a length of g + 1.
TruncateReclaims == [][TruncateReclaimsStep]_vars

\* set_len(n) has just cut a file by more than one allocation unit: its
\* allocated size went down to the unit that covers n.
TruncateReclaimsWitness ==
  /\ last.op = "set_len" /\ last.res = Ok
  /\ last.arg < last.was.flen /\ last.arg > 0
  /\ last.was.alloc = 2 * gran
  /\ flen = last.arg /\ alloc = gran

\* The values are ordered as total >= free >= available.
Ordered(total, free, available) ==
  total >= free /\ total >= available /\ available <= free

PathFunctions == {"free_space", "available_space", "total_space", "allocation_granularity"}

\* The condition OneQueryPerCall puts on every step.
OneQueryPerCallStep ==
  /\ last'.op \in PathFunctions
       => /\ Len(backend') = 1
          /\ backend'[1].fn = "statvfs"
          /\ last'.res = backend'[1].res
          /\ last'.res = Ok => last'.val = backend'[1].stats[last'.op]
  /\ (last'.op \in PathFunctions \cup {"statvfs"} /\ last'.arg \notin Mounted)
       => last'.res = NotFound
  /\ (last'.op = "statvfs" /\ last'.res = Ok)
       => /\ Len(backend') = 1
          /\ last'.stats = backend'[1].stats
          /\ last'.stats.total_space = Total'
          /\ last'.stats.free_space = Total' - alloc'
          /\ last'.stats.available_space = Capacity' - alloc'
          /\ last'.stats.allocation_granularity = gran'
          /\ alloc' = alloc

\* C13: a call of free_space, available_space, total_space or
\* allocation_granularity makes one statvfs query and returns the field of
\* its name of the FsStats the query returned, or the error the query
\* returned; the four values of one FsStats describe the filesystem at one
\* moment.
OneQueryPerCall == [][OneQueryPerCallStep]_vars

\* free_space has just returned the free_space field of its one query,
\* which is neither the available nor the total space.
OneQueryPerCallWitness ==
  /\ last.op = "free_space" /\ last.res = Ok /\ alloc > 0
  /\ Len(backend) = 1 /\ backend[1].fn = "statvfs"
  /\ last.val = backend[1].stats.free_space
  /\ last.val # backend[1].stats.available_space
  /\ last.val # backend[1].stats.total_space

\* The condition SharedPosition puts on every step.
SharedPositionStep ==
  /\ (last'.op = "duplicate" /\ last'.res = Ok)
       => \E n \in Handles :
            /\ ~IsOpen(n) /\ IsOpen(n)'
            /\ desc'[n] = desc'[last'.h]
            /\ PosOf(n)' = PosOf(last'.h)
  /\ (last'.op = "write" /\ last'.res = Ok)
       => \A g \in Handles :
            IsOpen(g) =>
              /\ PosOf(g)' = IF desc[g] = desc[last'.h] THEN PosOf(g) + last'.arg
                                                       ELSE PosOf(g)
              /\ desc[g] = desc[last'.h]
                   => \A i \in (PosOf(g) + 1)..(PosOf(g) + last'.arg) : bytes'[i] = last'.h
  /\ last'.op = "close"
       => /\ bytes' = bytes
          /\ \A g \in Handles \ {last'.h} : IsOpen(g) => IsOpen(g)' /\ PosOf(g)' = PosOf(g)
  /\ last'.op = "read_to_end"
       => /\ last'.res = Ok
          /\ last'.data = SubSeq(bytes, PosOf(last'.h) + 1, flen)
          /\ PosOf(last'.h) = flen => last'.data = <<>>
          /\ PosOf(last'.h) = 0 => last'.data = bytes
          /\ bytes' = bytes
          /\ \A g \in Handles :
               (IsOpen(g) /\ desc[g] = desc[last'.h]) => PosOf(g)' = flen

\* C14: the handle duplicate() returns reads and writes at the position of
\* its source, and goes on doing so when the source is closed: k bytes
\* written through one handle move the position of its duplicates by k,
\* closing a handle leaves the content and the positions of the other
\* handles as they are, a read to the end returns the bytes from the
\* position on (none at the end of the file, all of them from the start).
SharedPosition == [][SharedPositionStep]_vars

\* Handle 1 wrote the whole file and is closed; its duplicate, handle 2,
\* left at the end of the file by that write, has just read to the end and
\* got no byte.
SharedPositionWitness ==
  /\ last.op = "read_to_end" /\ last.h = 2 /\ ~IsOpen(1)
  /\ last.was.pos = flen /\ flen = MaxWrite
  /\ bytes = [i \in 1..flen |-> 1]
  /\ last.data = <<>>

\* The condition UnlockIdempotent puts on every step.
UnlockIdempotentStep ==
  \A h \in Handles :
    (Calls(h, {"unlock"}) /\ lockSupport)
      => /\ last'.res = Ok
         /\ LockOf(h)' = "none"
         /\ \A d \in Descs \ {desc[h]} : lock'[d] = lock[d]
         /\ LockOf(h) = "none" => lock' = lock
         /\ (last.op = "unlock" /\ last.h = h /\ last.res = Ok) => lock' = lock
         /\ UNCHANGED <<desc, waiting>>

\* C15: where the filesystem supports locks, unlock succeeds and leaves the
\* handle's description without a lock, shared or exclusive, and the locks
\* of the other descriptions as they are; on a handle that holds no lock,
\* and so right after an unlock of the same handle, it changes nothing.
UnlockIdempotent == [][UnlockIdempotentStep]_vars

\* unlock has just succeeded on a handle that held no lock, while another
\* handle holds one.
UnlockIdempotentWitness ==
  /\ last.op = "unlock" /\ last.res = Ok /\ last.was.lock = "none"
  /\ \E k \in Handles : IsOpen(k) /\ LockOf(k) # "none"

\* The condition ReLockReturns puts on every step.
ReLockReturnsStep ==
  \A h \in Handles :
    (/\ Calls(h, BlockingOps) /\ lockSupport
     /\ LockOf(h) # "none"
     /\ ~OthersHold(h, Incompatible(Requested(last'.op))))
      => /\ last'.res = Ok
         /\ waiting'[h] = "none"
         /\ LockOf(h)' = Requested(last'.op)

\* A call on h stays suspended for ever although its description holds a
\* lock and no other description holds one that is in its way.
SuspendedOnOwnLock(h) ==
  <>[](/\ waiting[h] # "none"
       /\ LockOf(h) # "none"
       /\ ~OthersHold(h, Incompatible(waiting[h])))

\* C16: a lock_shared or lock_exclusive call on a handle whose description
\* holds a lock already, of either kind, returns Ok at once with the lock
\* asked for when no other description holds an incompatible lock, and a
\* call suspended while its description holds a lock does not stay
\* suspended once no other description holds an incompatible one.
ReLockReturns ==
  /\ [][ReLockReturnsStep]_vars
  /\ \A h \in Handles : ~SuspendedOnOwnLock(h)

\* lock_exclusive has just returned Ok on a handle whose description held a
\* shared lock: the lock is exclusive now.
ReLockReturnsWitness ==
  /\ last.op = "lock_exclusive" /\ last.res = Ok /\ last.was.lock = "shared"
  /\ LockOf(last.h) = "exclusive"

\* The condition AllocateAllOrNothing puts on every step.
AllocateAllOrNothingStep ==
  last'.op = "allocate"
    => /\ RoundUp(last'.arg) > Capacity => last'.res = StorageFull
       /\ last'.res = Ok => alloc' >= last'.arg /\ flen' >= last'.arg
       /\ last'.res # Ok
            => /\ alloc' = alloc /\ flen' = flen /\ bytes' = bytes
               /\ alloc' < last'.arg

\* C17: allocate(len) fails when the filesystem cannot hold len bytes for
\* the file; a call that succeeds leaves at least len bytes allocated, a
\* call that fails leaves the allocated size, below len, and the file as
\* they were.
AllocateAllOrNothing == [][AllocateAllOrNothingStep]_vars

\* allocate(len) has just failed on a file that has storage already: the
\* allocated size is what it was, less than len.
AllocateAllOrNothingWitness ==
  /\ last.op = "allocate" /\ last.res = StorageFull
  /\ last.was.alloc > 0 /\ alloc = last.was.alloc /\ alloc < last.arg
  /\ flen = last.was.flen

\* The methods of FileExt and statvfs, and the function of the platform
\* module each of them calls; a blocking lock call that was suspended
\* returns in a step of its own.
PublicOps ==
  {"duplicate", "allocated_size", "allocate", "lock_shared", "lock_exclusive",
   "try_lock_shared", "try_lock_exclusive", "unlock", "statvfs"}
BackendOf(op) ==
  IF op = "lock_shared return" THEN "lock_shared"
  ELSE IF op = "lock_exclusive return" THEN "lock_exclusive"
  ELSE op

\* The condition PassThrough puts on every step.
PassThroughStep ==
  last'.op \in PublicOps \cup ReturnOps
    => /\ Len(backend') = 1
       /\ backend'[1].fn = BackendOf(last'.op)
       /\ last'.res = backend'[1].res
       /\ last'.val = backend'[1].val
       /\ last'.stats = backend'[1].stats

\* C18: a call of duplicate, allocated_size, allocate, lock_shared,
\* lock_exclusive, try_lock_shared, try_lock_exclusive, unlock or statvfs
\* makes one call into the platform module, to the function of its name,
\* and returns what that call returned: the same Ok value or the same error.
PassThrough == [][PassThroughStep]_vars

\* try_lock_exclusive has just returned the contention error of its one
\* call into the platform module.
PassThroughWitness ==
  /\ last.op = "try_lock_exclusive" /\ last.res = WouldBlock
  /\ Len(backend) = 1
  /\ backend[1].fn = "try_lock_exclusive" /\ backend[1].res = WouldBlock

\* The condition FailedTryChangesNothing puts on every step.
FailedTryChangesNothingStep ==
  \A h \in Handles :
    (Calls(h, TryOps) /\ last'.res = WouldBlock) => lock' = lock

\* C19 (as stated): a try_lock_shared or try_lock_exclusive call that fails
\* with the contention error leaves every description's lock, that of the
\* caller included, as it was.
FailedTryChangesNothing == [][FailedTryChangesNothingStep]_vars

\* The condition FailedTrySparesOthers puts on every step.
FailedTrySparesOthersStep ==
  \A h \in Handles :
    (Calls(h, TryOps) /\ last'.res = WouldBlock)
      => /\ \A d \in Descs \ {desc[h]} : lock'[d] = lock[d]
         /\ LockOf(h)' \in {LockOf(h), "none"}
         /\ UNCHANGED <<desc, waiting>>

\* C19 (amended): a try_lock_shared or try_lock_exclusive call that fails
\* with the contention error leaves the locks of all other descriptions as
\* they were and gives the caller's description no lock it did not hold; the
\* lock it held is kept or is lost in the failed conversion.
FailedTrySparesOthers == [][FailedTrySparesOthersStep]_vars

\* try_lock_exclusive has just failed on a handle that held a shared lock
\* beside the shared lock of another description; both are still held.
FailedTrySparesOthersWitness ==
  /\ last.op = "try_lock_exclusive" /\ last.res = WouldBlock
  /\ last.was.lock = "shared" /\ LockOf(last.h) = "shared"
  /\ OthersHold(last.h, {"shared"})

\* The condition LocksApartFromSpace puts on every step.
LocksApartFromSpaceStep ==
  /\ last'.op \in {"allocate", "allocated_size", "statvfs"} \cup PathFunctions
       => UNCHANGED <<desc, lock, waiting>>
  /\ last'.op = "allocate"
       => /\ last'.res = IF RoundUp(last'.arg) > Capacity THEN StorageFull ELSE Ok
          /\ last'.res = Ok => alloc' = Max(alloc, RoundUp(last'.arg))
  /\ last'.op = "allocated_size" => last'.res = Ok /\ last'.val = alloc
  /\ last'.op \in {"statvfs"} \cup PathFunctions
       => last'.res = IF last'.arg \in Mounted THEN Ok ELSE NotFound
  /\ last'.op \in LockOps \cup ReturnOps \cup {"unlock"}
       => UNCHANGED <<flen, alloc, bytes, pos>>

\* C20: allocate, allocated_size and the statistics queries return what the
\* file's storage and the path decide, whatever locks are held, and leave
\* every description's lock as it is; lock_shared, lock_exclusive,
\* try_lock_shared, try_lock_exclusive and unlock leave the file's allocated
\* size, length, content and positions as they are.
LocksApartFromSpace == [][LocksApartFromSpaceStep]_vars

\* allocate has just added storage to the file through one handle while
\* another description, whose position is not 0, holds an exclusive lock.
LocksApartFromSpaceWitness ==
  /\ last.op = "allocate" /\ last.res = Ok /\ alloc > last.was.alloc
  /\ last.was.alloc > 0
  /\ \E k \in Handles :
       Independent(k, last.h) /\ LockOf(k) = "exclusive" /\ PosOf(k) > 0

====
